---- MODULE Spec2Model ----
(***************************************************************************)
(* Model of list_reponders_analyzers.py: the command line tool that lists  *)
(* Cortex analyzers and the responders available for a TheHive entity.     *)
(*                                                                         *)
(* Python strings are sequences of character codes, so that str.lower()   *)
(* and the string order used by list.sort() are computed, not assumed.    *)
(* A JSON value read from a record is a tagged value [t, v]; a dict of the *)
(* response is a record whose absent keys carry the tag "absent".  The     *)
(* records of the model carry only the keys cortexId and name: the other   *)
(* keys (id, description, dataTypeList) are absent, which the code prints  *)
(* with its defaults.                                                      *)
(***************************************************************************)
EXTENDS Integers, Sequences, FiniteSets

(* ------------------------------ bounds -------------------------------- *)

\* longest JSON array a response carries
MaxRecords == 2
\* longest command line (len(sys.argv), program name included)
MaxArgs == 5

(* ------------------------------ strings ------------------------------- *)

S_prog == <<99, 111, 114, 116, 101, 120, 95, 108, 105, 115, 116, 46, 112, 121>>  \* "cortex_list.py"
S_analyzers == <<97, 110, 97, 108, 121, 122, 101, 114, 115>>  \* "analyzers"
S_ANALYZERS == <<65, 78, 65, 76, 89, 90, 69, 82, 83>>  \* "ANALYZERS"
S_responders == <<114, 101, 115, 112, 111, 110, 100, 101, 114, 115>>  \* "responders"
S_Responders == <<82, 101, 115, 112, 111, 110, 100, 101, 114, 115>>  \* "Responders"
S_list == <<108, 105, 115, 116>>  \* "list"
S_case == <<99, 97, 115, 101>>  \* "case"
S_alert == <<97, 108, 101, 114, 116>>  \* "alert"
S_Alert == <<65, 108, 101, 114, 116>>  \* "Alert"
S_observable == <<111, 98, 115, 101, 114, 118, 97, 98, 108, 101>>  \* "observable"
S_Observable == <<79, 98, 115, 101, 114, 118, 97, 98, 108, 101>>  \* "Observable"
S_case_artifact == <<99, 97, 115, 101, 95, 97, 114, 116, 105, 102, 97, 99, 116>>  \* "case_artifact"
S_CASE_ARTIFACT == <<67, 65, 83, 69, 95, 65, 82, 84, 73, 70, 65, 67, 84>>  \* "CASE_ARTIFACT"
S_ticket == <<116, 105, 99, 107, 101, 116>>  \* "ticket"
S_id42 == <<52, 50>>  \* "42"
S_extra == <<101, 120, 116, 114, 97>>  \* "extra"
S_Unknown == <<85, 110, 107, 110, 111, 119, 110>>  \* "Unknown"
S_Zeus == <<90, 101, 117, 115>>  \* "Zeus"
S_anubis == <<97, 110, 117, 98, 105, 115>>  \* "anubis"
S_c1 == <<99, 49>>  \* "c1"
S_empty == <<>>  \* ""

\* str.lower() on one ASCII character
LowerChar(c) == IF c >= 65 /\ c <= 90 THEN c + 32 ELSE c

\* str.lower()
Lower(s) == [i \in 1..Len(s) |-> LowerChar(s[i])]

\* Python's a < b on strings: the order of the first differing character,
\* a proper prefix coming first
StrLess(a, b) ==
    \E i \in 1..(Len(a) + 1) :
        /\ i <= Len(b)
        /\ \A j \in 1..(i - 1) : a[j] = b[j]
        /\ (i > Len(a) \/ a[i] < b[i])

\* Python's a <= b on strings
StrLeq(a, b) == ~StrLess(b, a)

(* ----------------------------- JSON values ---------------------------- *)

Absent == [t |-> "absent", v |-> <<>>]
Null == [t |-> "null", v |-> <<>>]
Str(s) == [t |-> "str", v |-> s]

\* dict.get(key, default)
Get(d, key, default) == IF d[key].t = "absent" THEN default ELSE d[key]

\* a JSON object of the array, with the keys the model varies
Dict(c, n) == [t |-> "dict", cortexId |-> c, name |-> n]

\* an element of the array that is not an object (a number, a string)
NonDict == [t |-> "other", cortexId |-> Absent, name |-> Absent]

\* the elements a response array is built of
Elements ==
    {Dict(c, n) : c \in {Absent, Str(S_c1)}, n \in {Absent, Str(S_Zeus), Str(S_anubis)}}
        \cup {Dict(Str(S_c1), Null), NonDict}

RECURSIVE SeqsUpTo(_, _)
SeqsUpTo(S, n) ==
    IF n = 0 THEN {<<>>}
    ELSE LET shorter == SeqsUpTo(S, n - 1)
         IN  shorter \cup {Append(s, e) : s \in {x \in shorter : Len(x) = n - 1}, e \in S}

\* what response.json() yields, or fails to yield, for a body:
\*   invalid: json() raises (the body is not JSON), or the len() taken of
\*            its value right after raises (a JSON number, true, false, null);
\*   object: a JSON object, whose iteration yields its keys (strings);
\*   array: a JSON array of Elements
InvalidBody == [kind |-> "invalid", items |-> <<>>]
ObjectBody == [kind |-> "object", items |-> <<NonDict>>]
ArrayBody(items) == [kind |-> "array", items |-> items]
EmptyList == ArrayBody(<<>>)

Bodies ==
    {InvalidBody, ObjectBody} \cup {ArrayBody(s) : s \in SeqsUpTo(Elements, MaxRecords)}

(* ------------------------------ HTTP ---------------------------------- *)

HTTP_OK == 200
NonOkStatus == {404}

\* what requests.get() does: raise, or return a response
Raised == [exc |-> TRUE, status |-> 0, body |-> InvalidBody]
Response(status, body) == [exc |-> FALSE, status |-> status, body |-> body]
Responses ==
    {Raised} \cup {Response(s, InvalidBody) : s \in NonOkStatus}
        \cup {Response(HTTP_OK, b) : b \in Bodies}

\* response.json(), or the len() of its value, raises
ParseRaises(body) == body.kind = "invalid"

(* ------------------------------ output -------------------------------- *)

NoEndpoint == [prefix |-> "", entity |-> <<>>, id |-> <<>>]
Line(msg, ep, n, s, l) == [msg |-> msg, ep |-> ep, n |-> n, s |-> s, l |-> l]
Text(msg) == Line(msg, NoEndpoint, 0, <<>>, <<>>)

(* ------------------- grouping and sorting (pure) ---------------------- *)

\* cortex_id = analyzer.get('cortexId', 'Unknown')
GroupKey(r) == Get(r, "cortexId", Str(S_Unknown))

\* the slip of creating the list of a new key without appending the record
AddToGroup_DropFirst(gs, r) ==
    IF \E i \in DOMAIN gs : gs[i].cortexId = GroupKey(r)
    THEN [i \in DOMAIN gs |->
            IF gs[i].cortexId = GroupKey(r)
            THEN [gs[i] EXCEPT !.members = Append(@, r)] ELSE gs[i]]
    ELSE Append(gs, [cortexId |-> GroupKey(r), members |-> <<>>])

\* one iteration of the grouping loop; the dict keeps its keys in the order
\* of their insertion, so it is a sequence of [cortexId, members]
AddToGroup(gs, r) ==
    IF \E i \in DOMAIN gs : gs[i].cortexId = GroupKey(r)
    THEN [i \in DOMAIN gs |->
            IF gs[i].cortexId = GroupKey(r)
            THEN [gs[i] EXCEPT !.members = Append(@, r)] ELSE gs[i]]
    ELSE Append(gs, [cortexId |-> GroupKey(r), members |-> <<r>>])

\* the grouping loop over the first k elements
RECURSIVE GroupUpTo(_, _)
GroupUpTo(items, k) ==
    IF k = 0 THEN <<>> ELSE AddToGroup(GroupUpTo(items, k - 1), items[k])

\* x.get(...) raises AttributeError on an element that is not a dict: the
\* number of elements the grouping loop handles before that
DictPrefixLen(items) ==
    IF \A i \in DOMAIN items : items[i].t = "dict" THEN Len(items)
    ELSE (CHOOSE i \in DOMAIN items :
            /\ items[i].t # "dict"
            /\ \A j \in 1..(i - 1) : items[j].t = "dict") - 1

\* the sort key without .lower()
SortKey_CaseSensitive(x) == Get(x, "name", Str(S_empty)).v

\* key=lambda x: x.get('name', '').lower()
SortKey(x) == Lower(Get(x, "name", Str(S_empty)).v)

\* .lower() raises AttributeError when the name is not a string (null)
SortKeyRaises(x) == Get(x, "name", Str(S_empty)).t # "str"

\* list.sort(key=...): stable, ascending
RECURSIVE SortByName(_)
SortByName(s) ==
    IF s = <<>> THEN <<>>
    ELSE LET front == SortByName(SubSeq(s, 1, Len(s) - 1))
             x == s[Len(s)]
             p == Cardinality({i \in DOMAIN front : StrLeq(SortKey(front[i]), SortKey(x))})
         IN  SubSeq(front, 1, p) \o <<x>> \o SubSeq(front, p + 1, Len(front))

\* analyzer.get('name', 'Unknown'), as printed
DisplayName(x) == Get(x, "name", Str(S_Unknown)).v

\* the lines printed for one record
ItemLines(x, analyzer) ==
    <<Line("- {name} (ID: {id})", NoEndpoint, 0, DisplayName(x), <<>>)>>
        \o (IF analyzer THEN <<Text("  Supported data types: ")>> ELSE <<>>)

RECURSIVE AllItemLines(_, _)
AllItemLines(s, analyzer) ==
    IF s = <<>> THEN <<>>
    ELSE ItemLines(Head(s), analyzer) \o AllItemLines(Tail(s), analyzer)

GroupHeader(g, analyzer) ==
    Line(IF analyzer THEN "== Cortex Instance: {cortex_id} ==" ELSE "Cortex Instance: {cortex_id}",
         NoEndpoint, 0, g.cortexId.v, <<>>)

\* the display loop from group i on: header, sort, one line per record.
\* A sort that raises leaves the list as it was and ends the loop.
RECURSIVE ShowGroups(_, _, _)
ShowGroups(gs, i, analyzer) ==
    IF i > Len(gs) THEN [lines |-> <<>>, groups |-> <<>>, raised |-> FALSE]
    ELSE IF \E j \in DOMAIN gs[i].members : SortKeyRaises(gs[i].members[j])
    THEN [lines |-> <<GroupHeader(gs[i], analyzer)>>,
          groups |-> SubSeq(gs, i, Len(gs)),
          raised |-> TRUE]
    ELSE LET sorted == SortByName(gs[i].members)
             rest == ShowGroups(gs, i + 1, analyzer)
         IN  [lines |-> <<GroupHeader(gs[i], analyzer)>> \o AllItemLines(sorted, analyzer)
                            \o rest.lines,
              groups |-> <<[gs[i] EXCEPT !.members = sorted]>> \o rest.groups,
              raised |-> rest.raised]

\* header with the count, grouping loop, display loop, for a parsed value
\* that has a length
ShowRecords(value, analyzer) ==
    LET items == value.items
        k == DictPrefixLen(items)
        header == Line(IF analyzer THEN "=== {n} AVAILABLE CORTEX ANALYZERS ==="
                       ELSE "=== {n} AVAILABLE RESPONDERS ===",
                       NoEndpoint, Len(items), <<>>, <<>>)
        gs == GroupUpTo(items, k)
        shown == ShowGroups(gs, 1, analyzer)
    IN  IF k < Len(items)
        THEN [lines |-> <<header>>, groups |-> gs, raised |-> TRUE]
        ELSE [lines |-> <<header>> \o shown.lines, groups |-> shown.groups,
              raised |-> shown.raised]

(* ------------------------ list_all_analyzers -------------------------- *)

\* {api_url}/connector/cortex/analyzer
AnalyzerEndpoint == [prefix |-> "/connector/cortex/analyzer", entity |-> <<>>, id |-> <<>>]

ErrorConnecting == Text("Error connecting to TheHive: {e}")

\* a try block that covers only requests.get(): what the records raise escapes
ListAllAnalyzers_NarrowTry(resp) ==
    IF resp.exc THEN [lines |-> <<ErrorConnecting>>, groups |-> <<>>, raised |-> FALSE]
    ELSE IF resp.status = HTTP_OK
    THEN IF ParseRaises(resp.body)
         THEN [lines |-> <<>>, groups |-> <<>>, raised |-> TRUE]
         ELSE ShowRecords(resp.body, TRUE)
    ELSE [lines |-> <<Line("Error getting analyzers: {status} - {text}",
                           NoEndpoint, resp.status, <<>>, <<>>)>>,
          groups |-> <<>>, raised |-> FALSE]

\* the body of list_all_analyzers once requests.get() has answered: what it
\* prints, the groups it built, and whether an exception leaves the function
ListAllAnalyzers(resp) ==
    IF resp.exc THEN [lines |-> <<ErrorConnecting>>, groups |-> <<>>, raised |-> FALSE]
    ELSE IF resp.status = HTTP_OK
    THEN IF ParseRaises(resp.body)
         THEN [lines |-> <<ErrorConnecting>>, groups |-> <<>>, raised |-> FALSE]
         ELSE LET shown == ShowRecords(resp.body, TRUE)
              IN  [lines |-> shown.lines \o (IF shown.raised THEN <<ErrorConnecting>> ELSE <<>>),
                   groups |-> shown.groups,
                   raised |-> FALSE]
    ELSE [lines |-> <<Line("Error getting analyzers: {status} - {text}",
                           NoEndpoint, resp.status, <<>>, <<>>)>>,
          groups |-> <<>>, raised |-> FALSE]

(* --------------------- list_available_responders ---------------------- *)

ValidEntityTypes == <<S_case, S_alert, S_observable, S_case_artifact>>

\* a validation that lets every entity type through
IsValidEntityType_Any(entity_type) == TRUE

\* entity_type.lower() in valid_entity_types
IsValidEntityType(entity_type) ==
    \E i \in DOMAIN ValidEntityTypes : ValidEntityTypes[i] = Lower(entity_type)

Endpoint(prefix, entity, id) == [prefix |-> prefix, entity |-> entity, id |-> id]

\* the candidate endpoints, in the order they are tried
Endpoints(entity_type, entity_id) ==
    IF Lower(entity_type) \in {S_observable, S_case_artifact}
    THEN << Endpoint("/connector/cortex/responder/", S_case_artifact, entity_id),
            Endpoint("/v1/connector/cortex/responder/", S_case_artifact, entity_id),
            Endpoint("/connector/cortex/responder/", S_observable, entity_id),
            Endpoint("/v1/connector/cortex/responder/", S_observable, entity_id) >>
    ELSE << Endpoint("/connector/cortex/responder/", Lower(entity_type), entity_id),
            Endpoint("/v1/connector/cortex/responder/", Lower(entity_type), entity_id) >>

ErrorTrying(endpoint) == Line("Error trying endpoint {endpoint}: {e}", endpoint, 0, <<>>, <<>>)

\* an except clause that gives up with an empty list instead of going on
HandleResponse_ReturnOnError(resp, endpoint) ==
    IF resp.exc THEN [returned |-> TRUE, value |-> EmptyList, lines |-> <<ErrorTrying(endpoint)>>]
    ELSE IF resp.status = HTTP_OK
    THEN IF ParseRaises(resp.body)
         THEN [returned |-> TRUE, value |-> EmptyList, lines |-> <<ErrorTrying(endpoint)>>]
         ELSE [returned |-> TRUE, value |-> resp.body,
               lines |-> <<Line("Successfully retrieved {n} responders from endpoint: {endpoint}",
                               endpoint, Len(resp.body.items), <<>>, <<>>)>>]
    ELSE [returned |-> FALSE, value |-> EmptyList,
          lines |-> <<Line("Endpoint {endpoint} returned: {status} - {text}",
                          endpoint, resp.status, <<>>, <<>>)>>]

\* a loop that goes on to the next candidate after a 200 as well
HandleResponse_NoReturn(resp, endpoint) ==
    IF resp.exc THEN [returned |-> FALSE, value |-> EmptyList, lines |-> <<ErrorTrying(endpoint)>>]
    ELSE IF resp.status = HTTP_OK
    THEN IF ParseRaises(resp.body)
         THEN [returned |-> FALSE, value |-> EmptyList, lines |-> <<ErrorTrying(endpoint)>>]
         ELSE [returned |-> FALSE, value |-> resp.body,
               lines |-> <<Line("Successfully retrieved {n} responders from endpoint: {endpoint}",
                               endpoint, Len(resp.body.items), <<>>, <<>>)>>]
    ELSE [returned |-> FALSE, value |-> EmptyList,
          lines |-> <<Line("Endpoint {endpoint} returned: {status} - {text}",
                          endpoint, resp.status, <<>>, <<>>)>>]

\* the try block of one loop iteration once requests.get() has answered:
\* whether the function returns, what it returns, what it prints
HandleResponse(resp, endpoint) ==
    IF resp.exc THEN [returned |-> FALSE, value |-> EmptyList, lines |-> <<ErrorTrying(endpoint)>>]
    ELSE IF resp.status = HTTP_OK
    THEN IF ParseRaises(resp.body)
         THEN [returned |-> FALSE, value |-> EmptyList, lines |-> <<ErrorTrying(endpoint)>>]
         ELSE [returned |-> TRUE, value |-> resp.body,
               lines |-> <<Line("Successfully retrieved {n} responders from endpoint: {endpoint}",
                               endpoint, Len(resp.body.items), <<>>, <<>>)>>]
    ELSE [returned |-> FALSE, value |-> EmptyList,
          lines |-> <<Line("Endpoint {endpoint} returned: {status} - {text}",
                          endpoint, resp.status, <<>>, <<>>)>>]

(* --------------------- display_entity_responders ---------------------- *)

NoRespondersLine == Text("No responders available for this entity.")

\* `not responders`: an empty list
Falsy(value) == Len(value.items) = 0

\* display without the test for an empty list
DisplayEntityResponders_NoEmptyTest(responders) == ShowRecords(responders, FALSE)

\* what display_entity_responders prints, the groups it built, and whether
\* an exception leaves the function (there is no try block)
DisplayEntityResponders(responders) ==
    IF Falsy(responders)
    THEN [lines |-> <<NoRespondersLine>>, groups |-> <<>>, raised |-> FALSE]
    ELSE ShowRecords(responders, FALSE)

(* ------------------------------- main --------------------------------- *)

UsageLines ==
    << Text("Usage:"),
       Text("  List all analyzers: python cortex_list.py analyzers"),
       Text("  List entity responders: python cortex_list.py responders <entity_type> <entity_id>"),
       Text("  Example: python cortex_list.py responders case_artifact 12345") >>

InvalidCommandLines ==
    << Text("Invalid command or missing parameters."),
       Text("Use 'analyzers' to list all analyzers"),
       Text("Use 'responders <entity_type> <entity_id>' to list responders for a specific entity") >>

\* the responders branch taken as soon as an entity type is given
Dispatch_OneArgument(args) ==
    IF Len(args) < 2 THEN "usage"
    ELSE IF Lower(args[2]) = S_analyzers THEN "analyzers"
    ELSE IF Lower(args[2]) = S_responders /\ Len(args) > 2 THEN "responders"
    ELSE "invalid"

\* the action compared without .lower()
Dispatch_CaseSensitive(args) ==
    IF Len(args) < 2 THEN "usage"
    ELSE IF args[2] = S_analyzers THEN "analyzers"
    ELSE IF args[2] = S_responders /\ Len(args) > 3 THEN "responders"
    ELSE "invalid"

\* the branch main takes; args[1] is sys.argv[0]
Dispatch(args) ==
    IF Len(args) < 2 THEN "usage"
    ELSE IF Lower(args[2]) = S_analyzers THEN "analyzers"
    ELSE IF Lower(args[2]) = S_responders /\ Len(args) > 3 THEN "responders"
    ELSE "invalid"

(* --------------------------- the program ------------------------------ *)

Actions == {S_analyzers, S_ANALYZERS, S_Responders, S_list}
EntityTypes == {S_case, S_Alert, S_Observable, S_CASE_ARTIFACT, S_ticket}

\* the command lines: nothing, an action, an action and an entity type, or
\* an action, an entity type, an entity id and further arguments
ArgvSet ==
    {<<S_prog>>}
      \cup {<<S_prog, a>> : a \in Actions}
      \cup {<<S_prog, a, t>> : a \in Actions, t \in EntityTypes}
      \cup {<<S_prog, a, t, S_id42>> \o [i \in 1..n |-> S_extra] :
                a \in Actions, t \in EntityTypes, n \in 0..(MaxArgs - 4)}

VARIABLES
    argv,        \* sys.argv
    pc,          \* where the program is
    calls,       \* the functions main has called, in order
    reqs,        \* the requests.get() calls made, each with its outcome
    out,         \* the lines printed
    endpoints,   \* list_available_responders: the candidate list
    idx,         \* list_available_responders: position of the for loop
    responders,  \* what list_available_responders returned
    groups,      \* the by-cortex dict of the function that grouped
    raised       \* an exception left main

vars == <<argv, pc, calls, reqs, out, endpoints, idx, responders, groups, raised>>

Init ==
    /\ argv \in ArgvSet
    /\ pc = "main"
    /\ calls = <<>>
    /\ reqs = <<>>
    /\ out = <<>>
    /\ endpoints = <<>>
    /\ idx = 1
    /\ responders = EmptyList
    /\ groups = <<>>
    /\ raised = FALSE

\* main up to the call it dispatches to.  sys.argv[3] raises IndexError on
\* a command line that has no such element.
Main ==
    /\ pc = "main"
    /\ LET branch == Dispatch(argv)
       IN  CASE branch = "usage" ->
                  /\ out' = out \o UsageLines
                  /\ pc' = "exit"
                  /\ UNCHANGED <<calls, raised>>
             [] branch = "analyzers" ->
                  /\ calls' = Append(calls, "list_all_analyzers")
                  /\ pc' = "list_all_analyzers"
                  /\ UNCHANGED <<out, raised>>
             [] branch = "responders" ->
                  IF Len(argv) < 4
                  THEN /\ raised' = TRUE
                       /\ pc' = "exit"
                       /\ UNCHANGED <<out, calls>>
                  ELSE /\ calls' = Append(calls, "list_available_responders")
                       /\ pc' = "list_available_responders"
                       /\ UNCHANGED <<out, raised>>
             [] OTHER ->
                  /\ out' = out \o InvalidCommandLines
                  /\ pc' = "exit"
                  /\ UNCHANGED <<calls, raised>>
    /\ UNCHANGED <<argv, reqs, endpoints, idx, responders, groups>>

\* list_all_analyzers: one GET, then everything it prints
ListAllAnalyzersCall ==
    /\ pc = "list_all_analyzers"
    /\ \E resp \in Responses :
         LET r == ListAllAnalyzers(resp)
         IN  /\ reqs' = Append(reqs, [ep |-> AnalyzerEndpoint, resp |-> resp])
             /\ out' = out \o r.lines
             /\ groups' = r.groups
             /\ raised' = r.raised
    /\ pc' = "exit"
    /\ UNCHANGED <<argv, calls, endpoints, idx, responders>>

\* list_available_responders up to the for loop: validation, candidate list
StartLookup ==
    /\ pc = "list_available_responders"
    /\ IF ~IsValidEntityType(argv[3])
       THEN /\ out' = Append(out, Line("Error: Entity type must be one of {valid_entity_types}",
                                       NoEndpoint, 0, <<>>, ValidEntityTypes))
            /\ responders' = EmptyList
            /\ calls' = Append(calls, "display_entity_responders")
            /\ pc' = "display_entity_responders"
            /\ UNCHANGED <<endpoints, idx>>
       ELSE /\ endpoints' = Endpoints(argv[3], argv[4])
            /\ idx' = 1
            /\ pc' = "for_endpoint"
            /\ UNCHANGED <<out, responders, calls>>
    /\ UNCHANGED <<argv, reqs, groups, raised>>

\* one iteration of the for loop: print, GET, handle the answer
TryEndpoint ==
    /\ pc = "for_endpoint"
    /\ idx <= Len(endpoints)
    /\ \E resp \in Responses :
         LET endpoint == endpoints[idx]
             h == HandleResponse(resp, endpoint)
         IN  /\ reqs' = Append(reqs, [ep |-> endpoint, resp |-> resp])
             /\ out' = out \o <<Line("Trying endpoint: {endpoint}", endpoint, 0, <<>>, <<>>)>>
                           \o h.lines
             /\ IF h.returned
                THEN /\ responders' = h.value
                     /\ calls' = Append(calls, "display_entity_responders")
                     /\ pc' = "display_entity_responders"
                     /\ idx' = idx
                ELSE /\ idx' = idx + 1
                     /\ UNCHANGED <<responders, calls, pc>>
    /\ UNCHANGED <<argv, endpoints, groups, raised>>

\* the for loop is exhausted: the final message and an empty list
LookupFailed ==
    /\ pc = "for_endpoint"
    /\ idx > Len(endpoints)
    /\ out' = Append(out, Line("Error: Could not get responders for {entity_type} {entity_id} from any endpoint",
                               Endpoint("", argv[3], argv[4]), 0, <<>>, <<>>))
    /\ responders' = EmptyList
    /\ calls' = Append(calls, "display_entity_responders")
    /\ pc' = "display_entity_responders"
    /\ UNCHANGED <<argv, reqs, endpoints, idx, groups, raised>>

\* display_entity_responders(list_available_responders(...))
DisplayCall ==
    /\ pc = "display_entity_responders"
    /\ LET d == DisplayEntityResponders(responders)
       IN  /\ out' = out \o d.lines
           /\ groups' = d.groups
           /\ raised' = d.raised
    /\ pc' = "exit"
    /\ UNCHANGED <<argv, calls, reqs, endpoints, idx, responders>>

Next ==
    \/ Main
    \/ ListAllAnalyzersCall
    \/ StartLookup
    \/ TryEndpoint
    \/ LookupFailed
    \/ DisplayCall

Spec == Init /\ [][Next]_vars

(* ------------------------- helpers of the claims ----------------------- *)

ListerCalled == calls # <<>> /\ calls[1] = "list_available_responders"
AnalyzersCalled == calls # <<>> /\ calls[1] = "list_all_analyzers"

\* a request that was answered 200
Answered200(r) == ~r.resp.exc /\ r.resp.status = 200
\* a request that was answered 200 with a body that parsed to a value with
\* a length
Parsed200(r) == Answered200(r) /\ r.resp.body.kind # "invalid"
\* a request that raised or was answered with another status than 200
FailedRequest(r) == r.resp.exc \/ r.resp.status # 200

Count(s, r) == Cardinality({i \in DOMAIN s : s[i] = r})

RECURSIVE CountInGroups(_, _)
CountInGroups(gs, r) ==
    IF gs = <<>> THEN 0 ELSE Count(Head(gs).members, r) + CountInGroups(Tail(gs), r)

RECURSIVE TotalSize(_)
TotalSize(gs) == IF gs = <<>> THEN 0 ELSE Len(Head(gs).members) + TotalSize(Tail(gs))

RECURSIVE NamesOfGroups(_)
NamesOfGroups(gs) ==
    IF gs = <<>> THEN <<>>
    ELSE [i \in DOMAIN Head(gs).members |->
            IF Head(gs).members[i].name.t = "absent" THEN S_Unknown
            ELSE Head(gs).members[i].name.v] \o NamesOfGroups(Tail(gs))

\* the names printed, in the order of the lines that print them
RECURSIVE PrintedNames(_)
PrintedNames(lines) ==
    IF lines = <<>> THEN <<>>
    ELSE (IF Head(lines).msg = "- {name} (ID: {id})" THEN <<Head(lines).s>> ELSE <<>>)
            \o PrintedNames(Tail(lines))

\* the sequence handed to the function that groups
GroupedInput == IF AnalyzersCalled THEN reqs[1].resp.body.items ELSE responders.items

\* a grouping function has run on a sequence of records (JSON objects)
GroupedRecords ==
    /\ pc = "exit"
    /\ calls # <<>>
    /\ AnalyzersCalled => Parsed200(reqs[1]) /\ reqs[1].resp.body.kind = "array"
    /\ ListerCalled => Len(calls) = 2 /\ responders.kind = "array" /\ responders.items # <<>>
    /\ \A i \in DOMAIN GroupedInput : GroupedInput[i].t = "dict"

\* ... whose names, where present, are strings
GroupedNamedRecords ==
    /\ GroupedRecords
    /\ \A i \in DOMAIN GroupedInput : GroupedInput[i].name.t \in {"absent", "str"}

(* ------------------------------- claims -------------------------------- *)

\* C1 (as stated): for entity type observable or case_artifact in any letter
\* case, the requests go to case_artifact, v1/case_artifact, observable,
\* v1/observable in that order, and a candidate answered 200 is the last one
\* requested: the function has returned what that response parsed to.
C1_Original ==
    (ListerCalled /\ argv[3] \in {S_Observable, S_CASE_ARTIFACT}) =>
        /\ Len(reqs) <= 4
        /\ \A i \in DOMAIN reqs :
              /\ reqs[i].ep.prefix = <<"/connector/cortex/responder/",
                                       "/v1/connector/cortex/responder/",
                                       "/connector/cortex/responder/",
                                       "/v1/connector/cortex/responder/">>[i]
              /\ reqs[i].ep.entity = <<S_case_artifact, S_case_artifact,
                                       S_observable, S_observable>>[i]
              /\ reqs[i].ep.id = argv[4]
        /\ \A i \in DOMAIN reqs :
              Answered200(reqs[i]) =>
                  /\ i = Len(reqs)
                  /\ pc \in {"display_entity_responders", "exit"}
                  /\ responders = reqs[i].resp.body

\* C1 (amended): the same order of requests; a candidate answered 200 with
\* a body that parses to a value with a length is the last one requested and
\* that value is what the function returns, while a 200 whose body does not
\* parse so counts as a failed candidate and is followed by the next one.
C1_ShortCircuit ==
    (ListerCalled /\ argv[3] \in {S_Observable, S_CASE_ARTIFACT}) =>
        /\ Len(reqs) <= 4
        /\ \A i \in DOMAIN reqs :
              /\ reqs[i].ep.prefix = <<"/connector/cortex/responder/",
                                       "/v1/connector/cortex/responder/",
                                       "/connector/cortex/responder/",
                                       "/v1/connector/cortex/responder/">>[i]
              /\ reqs[i].ep.entity = <<S_case_artifact, S_case_artifact,
                                       S_observable, S_observable>>[i]
              /\ reqs[i].ep.id = argv[4]
        /\ \A i \in DOMAIN reqs :
              /\ Parsed200(reqs[i]) =>
                    /\ i = Len(reqs)
                    /\ pc \in {"display_entity_responders", "exit"}
                    /\ responders = reqs[i].resp.body
              /\ (Answered200(reqs[i]) /\ ~Parsed200(reqs[i]) /\ i < 4
                    /\ pc \in {"display_entity_responders", "exit"}) => Len(reqs) > i

\* the third candidate answers 200 after the first was refused and the
\* second answered 200 with a body that is not JSON
C1_Witness ==
    /\ pc = "display_entity_responders"
    /\ argv[3] = S_Observable
    /\ Len(reqs) = 3
    /\ reqs[1].resp.status = 404
    /\ Answered200(reqs[2])
    /\ Parsed200(reqs[3])
    /\ responders.items # <<>>

\* C2: for a valid entity type the requests made are a prefix of the
\* candidate list (two candidates, or four for observable and
\* case_artifact), no candidate is requested twice, and after a candidate
\* that raised or answered non-200 the lookup does not end before the next
\* candidate is requested.
C2_FailureGoesOn ==
    (ListerCalled /\ pc # "list_available_responders"
        /\ argv[3] \in {S_case, S_Alert, S_Observable, S_CASE_ARTIFACT}) =>
        /\ Len(endpoints) = (IF argv[3] \in {S_Observable, S_CASE_ARTIFACT} THEN 4 ELSE 2)
        /\ Len(reqs) <= Len(endpoints)
        /\ \A i \in DOMAIN reqs : reqs[i].ep = endpoints[i]
        /\ \A i, j \in DOMAIN reqs : i # j => reqs[i].ep # reqs[j].ep
        /\ pc = "for_endpoint" => idx = Len(reqs) + 1
        /\ \A i \in DOMAIN reqs :
              (FailedRequest(reqs[i]) /\ i < Len(endpoints)
                  /\ pc \in {"display_entity_responders", "exit"}) => Len(reqs) > i
        /\ (reqs # <<>> /\ FailedRequest(reqs[Len(reqs)])
              /\ pc \in {"display_entity_responders", "exit"}) => Len(reqs) = Len(endpoints)

\* every one of the four candidates was requested, the first raised and
\* the second answered 404
C2_Witness ==
    /\ pc = "exit"
    /\ ListerCalled
    /\ Len(reqs) = 4
    /\ reqs[1].resp.exc
    /\ ~reqs[2].resp.exc /\ reqs[2].resp.status = 404

\* C3: no exception leaves main, whatever the command line and whatever the
\* server answers: the program ends with exit status 0.
C3_NoErrorEscapes == pc = "exit" => ~raised

\* C4: with an entity type that is not case, alert, observable or
\* case_artifact (compared in lower case) list_available_responders
\* returns an empty list, prints the four valid types, and requests nothing.
C4_InvalidEntityType ==
    (ListerCalled /\ pc # "list_available_responders"
        /\ Lower(argv[3]) \notin {S_case, S_alert, S_observable, S_case_artifact}) =>
        /\ reqs = <<>>
        /\ responders.kind = "array" /\ responders.items = <<>>
        /\ out # <<>>
        /\ out[1].msg = "Error: Entity type must be one of {valid_entity_types}"
        /\ out[1].l = <<S_case, S_alert, S_observable, S_case_artifact>>
        /\ \A i \in DOMAIN out : out[i].msg # "Trying endpoint: {endpoint}"

\* the lookup of a `ticket` has ended
C4_Witness ==
    /\ pc = "exit"
    /\ ListerCalled
    /\ argv[3] = S_ticket
    /\ Len(out) = 2

\* C5: `responders` followed by no argument or by one prints the message
\* about the invalid command and its usage; neither lister is called and
\* nothing is requested.
C5_MissingArguments ==
    (Len(argv) \in {2, 3} /\ Lower(argv[2]) = S_responders) =>
        /\ reqs = <<>>
        /\ calls = <<>>
        /\ pc = "exit" =>
              /\ ~raised
              /\ Len(out) = 3
              /\ out[1].msg = "Invalid command or missing parameters."
              /\ out[2].msg = "Use 'analyzers' to list all analyzers"
              /\ out[3].msg = "Use 'responders <entity_type> <entity_id>' to list responders for a specific entity"

\* `Responders Observable` has been answered
C5_Witness ==
    /\ pc = "exit"
    /\ argv = <<S_prog, S_Responders, S_Observable>>
    /\ out # <<>>

\* C6: the grouping by cortexId is an exact partition of the records: each
\* record is in the group of its cortexId and in no other, the groups hold
\* each record as often as the input does, their sizes sum to the length of
\* the input, and a record without cortexId is in the group "Unknown".
C6_GroupingPartitions ==
    GroupedRecords =>
        /\ \A i, j \in DOMAIN groups : i # j => groups[i].cortexId # groups[j].cortexId
        /\ \A i \in DOMAIN groups :
              /\ groups[i].members # <<>>
              /\ \A k \in DOMAIN groups[i].members :
                    LET r == groups[i].members[k]
                    IN  groups[i].cortexId =
                            (IF r.cortexId.t = "absent" THEN Str(S_Unknown) ELSE r.cortexId)
        /\ \A r \in Elements : CountInGroups(groups, r) = Count(GroupedInput, r)
        /\ TotalSize(groups) = Len(GroupedInput)

\* two records were grouped, one of them without cortexId
C6_Witness ==
    /\ GroupedRecords
    /\ ListerCalled
    /\ Len(groups) = 2
    /\ groups[1].cortexId = Str(S_c1)
    /\ groups[2].cortexId = Str(S_Unknown)
    /\ groups[2].members[1].cortexId = Absent

\* C7 (as stated): within every group the records are in non-decreasing
\* order of their lower-cased name, a record without name counting as
\* "Unknown", the name it is printed with.
C7_Original ==
    GroupedNamedRecords =>
        \A g \in DOMAIN groups :
            \A i, j \in DOMAIN groups[g].members :
                i < j =>
                    LET a == groups[g].members[i]
                        b == groups[g].members[j]
                    IN  StrLeq(Lower(IF a.name.t = "absent" THEN S_Unknown ELSE a.name.v),
                               Lower(IF b.name.t = "absent" THEN S_Unknown ELSE b.name.v))

\* C7 (amended): within every group the records are in non-decreasing order
\* of their lower-cased name, a record without name counting as the empty
\* string, so it comes first although it is printed as "Unknown"; the lines
\* printed follow that order.
C7_SortedByLowerName ==
    GroupedNamedRecords =>
        /\ \A g \in DOMAIN groups :
              \A i, j \in DOMAIN groups[g].members :
                  i < j =>
                      LET a == groups[g].members[i]
                          b == groups[g].members[j]
                      IN  StrLeq(Lower(IF a.name.t = "absent" THEN <<>> ELSE a.name.v),
                                 Lower(IF b.name.t = "absent" THEN <<>> ELSE b.name.v))
        /\ PrintedNames(out) = NamesOfGroups(groups)

\* "Zeus" came before "anubis" in the response and after it in the group
C7_Witness ==
    /\ GroupedNamedRecords
    /\ GroupedInput = <<Dict(Str(S_c1), Str(S_Zeus)), Dict(Str(S_c1), Str(S_anubis))>>
    /\ groups[1].members = <<Dict(Str(S_c1), Str(S_anubis)), Dict(Str(S_c1), Str(S_Zeus))>>

\* C8: when no candidate succeeds, the final message is printed once, after
\* the lines of the last candidate, and an empty list is returned; the
\* display then prints that no responders are available and nothing else,
\* and nothing more is requested.
C8_AllCandidatesFail ==
    (ListerCalled /\ pc \in {"display_entity_responders", "exit"} /\ reqs # <<>>
        /\ \A i \in DOMAIN reqs : ~Parsed200(reqs[i])) =>
        LET n == Len(reqs)
            final == "Error: Could not get responders for {entity_type} {entity_id} from any endpoint"
        IN  /\ n = Len(endpoints)
            /\ responders.kind = "array" /\ responders.items = <<>>
            /\ Cardinality({i \in DOMAIN out : out[i].msg = final}) = 1
            /\ out[2 * n + 1].msg = final
            /\ out[2 * n + 1].ep.entity = argv[3] /\ out[2 * n + 1].ep.id = argv[4]
            /\ out[2 * n - 1].msg = "Trying endpoint: {endpoint}"
            /\ out[2 * n - 1].ep = endpoints[n]
            /\ pc = "display_entity_responders" => Len(out) = 2 * n + 1
            /\ pc = "exit" =>
                  /\ Len(out) = 2 * n + 2
                  /\ out[2 * n + 2].msg = "No responders available for this entity."
                  /\ groups = <<>>
                  /\ ~raised

\* four candidates were refused and the program has ended
C8_Witness ==
    /\ pc = "exit"
    /\ ListerCalled
    /\ Len(reqs) = 4
    /\ \A i \in DOMAIN reqs : FailedRequest(reqs[i])
    /\ out[Len(out)].msg = "No responders available for this entity."

\* C9: list_all_analyzers makes exactly one request and returns normally:
\* a non-200 answer prints the status, and an exception of the request, of
\* the parsing or of the handling of the records is caught and printed.
C9_AnalyzersAlwaysReturn ==
    AnalyzersCalled =>
        /\ pc = "list_all_analyzers" => reqs = <<>>
        /\ pc = "exit" =>
              /\ Len(reqs) = 1
              /\ reqs[1].ep.prefix = "/connector/cortex/analyzer"
              /\ ~raised
              /\ (~reqs[1].resp.exc /\ reqs[1].resp.status # 200) =>
                    /\ Len(out) = 1
                    /\ out[1].msg = "Error getting analyzers: {status} - {text}"
                    /\ out[1].n = reqs[1].resp.status
              /\ (\/ reqs[1].resp.exc
                  \/ (Answered200(reqs[1]) /\ ~Parsed200(reqs[1]))
                  \/ (Parsed200(reqs[1]) /\ \E i \in DOMAIN reqs[1].resp.body.items :
                          \/ reqs[1].resp.body.items[i].t # "dict"
                          \/ reqs[1].resp.body.items[i].name.t = "null")) =>
                    out[Len(out)].msg = "Error connecting to TheHive: {e}"
              /\ (Parsed200(reqs[1]) /\ \A i \in DOMAIN reqs[1].resp.body.items :
                          /\ reqs[1].resp.body.items[i].t = "dict"
                          /\ reqs[1].resp.body.items[i].name.t # "null") =>
                    \A i \in DOMAIN out : out[i].msg # "Error connecting to TheHive: {e}"

\* the records of a 200 answer raised after the header was printed
C9_Witness ==
    /\ pc = "exit"
    /\ AnalyzersCalled
    /\ Parsed200(reqs[1])
    /\ Len(out) = 2
    /\ out[1].msg = "=== {n} AVAILABLE CORTEX ANALYZERS ==="
    /\ out[2].msg = "Error connecting to TheHive: {e}"

\* C10 (as stated): the responder lister is called only when exactly two
\* arguments follow `responders`.
C10_Original == ListerCalled => Len(argv) = 4

\* C10 (amended): the responder lister is called, and the display after it,
\* exactly when at least two arguments follow `responders` (in any letter
\* case; further arguments are ignored); every other command line whose
\* action is not `analyzers` prints the usage or the invalid command
\* message and ends without a request.
C10_AtLeastTwoArguments ==
    pc # "main" =>
        /\ ListerCalled <=> (Len(argv) >= 4 /\ Lower(argv[2]) = S_responders)
        /\ (ListerCalled /\ pc = "exit") =>
              calls = <<"list_available_responders", "display_entity_responders">>
        /\ AnalyzersCalled <=> (Len(argv) >= 2 /\ Lower(argv[2]) = S_analyzers)
        /\ Len(argv) < 2 =>
              /\ pc = "exit" /\ reqs = <<>> /\ calls = <<>> /\ ~raised
              /\ Len(out) = 4 /\ out[1].msg = "Usage:"
        /\ (Len(argv) >= 2 /\ Lower(argv[2]) # S_analyzers
              /\ ~(Len(argv) >= 4 /\ Lower(argv[2]) = S_responders)) =>
              /\ pc = "exit" /\ reqs = <<>> /\ calls = <<>> /\ ~raised
              /\ Len(out) = 3 /\ out[1].msg = "Invalid command or missing parameters."

\* `Responders Observable 42 extra` has called the lister and the display
C10_Witness ==
    /\ pc = "exit"
    /\ Len(argv) = 5
    /\ argv[2] = S_Responders
    /\ calls = <<"list_available_responders", "display_entity_responders">>

====
